---- MODULE Spec2Model ----
(***************************************************************************)
(* A model of mongooplog (src/mongooplog/mongooplog.go): MongoOplog.Run,   *)
(* its producer goroutine, the unbuffered channel oplogChan between them,  *)
(* the 5 s ticker, and the applyOps calls on the destination session.      *)
(***************************************************************************)
EXTENDS Integers, Sequences, FiniteSets, TLC

VARIABLES
    OplogNS,      \* mo.SourceOptions.OplogNS, a string as a sequence of characters
    oplog,        \* the entries the tailing cursor yields, in order, before it stops
    pos,          \* how many entries tail.Next has yielded so far
    oplogEntry,   \* *oplogEntry, the struct tail.Next decodes into (line 83)
    opCount,      \* opCount (line 91)
    ppc,          \* the producer goroutine's position
    cpc,          \* Run's position
    tickPending,  \* whether timer.C (capacity 1) holds a tick
    opsToApply,   \* opsToApply (line 121)
    opEntry,      \* opEntry, the entry last received from oplogChan (line 147)
    res,          \* *res, the ApplyOpsResponse the applyOps call decodes into (line 84)
    retErr,       \* the error Run returned, NilErr while it has not returned one
    defers,       \* Run's stack of deferred Close calls
    opened,       \* per resource, how many times it was acquired
    closed,       \* per resource, how many times it was released
    tailErr,      \* tail.Err() once the cursor has stopped
    Seconds,      \* sourceOptions.Seconds, the look-back window
    now,          \* time.Now() at line 182, in whole seconds since the epoch
    threshold,    \* the "$gte" bound of the oplog query (line 193), as 16-bit limbs
    sessionCalls, \* history: the GetSession calls made, in order, each with its outcome
    received,     \* history: every entry received from oplogChan, in order
    requests,     \* history: every applyOps request issued, in order, with its outcome
    logs,         \* history: the progress lines logged at lines 105, 142 and 165
    logArgs,      \* the evaluated arguments of Run's log call that has yet to emit
    access        \* history: which task read or wrote which variable of Run's frame

vars == <<OplogNS, oplog, pos, oplogEntry, opCount, ppc, cpc, tickPending,
          opsToApply, opEntry, res, retErr, defers, opened, closed, tailErr,
          Seconds, now, threshold, sessionCalls, received, requests, logs,
          logArgs, access>>

----------------------------------------------------------------------------
(* Bounds of the model. *)

\* The longest source stream explored.
MaxOplog == 5

\* The longest source stream explored under the fairness conditions.
MaxLiveOplog == 4

\* The size threshold. The code sets maxSize := 10000 (line 122); the model
\* explores the same comparison with a threshold small enough to be reached.
maxSize == 3

----------------------------------------------------------------------------
(* Values. *)

\* A Go error value is its format and the rendered argument; NilErr is nil.
NilErr == [format |-> "", arg |-> ""]

\* Operation kinds of the source entries ("n" is the no-op).
OpKinds == {"i", "n"}

\* A hybrid timestamp: seconds in the upper 32 bits, a counter in the lower 32.
MkTimestamp(secs, counter) == [secs |-> secs, counter |-> counter]

\* Timestamp >> 32 (lines 106, 142, 165): the upper 32 bits.
Shr32(ts) == ts.secs

\* The zero value of db.Oplog (line 83).
ZeroOplog == [ts |-> MkTimestamp(0, 0), op |-> ""]

\* No log call of Run is between evaluating its arguments and emitting.
NoLog == [kind |-> "", n |-> 0, total |-> 0, last |-> 0]

\* The zero value of db.ApplyOpsResponse (line 84).
ZeroResponse == [Ok |-> FALSE, ErrMsg |-> ""]

\* The i-th entry of a source stream whose kinds are given by f.
MkOplog(f) == [i \in DOMAIN f |-> [ts |-> MkTimestamp(i, 0), op |-> f[i]]]

OplogInputs == UNION {{MkOplog(f) : f \in [1..n -> OpKinds]} : n \in 0..MaxOplog}

\* Namespaces given on the command line, as sequences of characters.
NSInputs == {<<"l", ".", "o">>, <<"l">>, <<"l", ".">>, <<".", "o">>}

\* The look-back windows and clock readings explored for the cursor's threshold.
SecondsInputs == {0, 1, 60, 61, 3600, 65536, 86400}

NowInputs == {0, 59, 60, 65535, 65536, 1700000100, 2147483647}

\* What the destination can answer to one applyOps command: a transport error,
\* or a decoded response {ok, errmsg}.
ApplyOutcomes ==
    { [err |-> NilErr, Ok |-> TRUE, ErrMsg |-> ""],
      [err |-> NilErr, Ok |-> FALSE, ErrMsg |-> "duplicate key"],
      [err |-> [format |-> "EOF", arg |-> ""], Ok |-> FALSE, ErrMsg |-> ""] }

Resources == {"toSession", "fromSession", "tail"}

Tasks == {"coordinator", "producer"}

\* An applyOps request that has not been answered yet carries this reply.
NoReply == [err |-> NilErr, Ok |-> FALSE, ErrMsg |-> "(no reply yet)"]

\* The variables of Run's frame that the goroutine's closure captures or Run uses
\* after starting it.
GoVars == {"tail", "oplogEntry", "opCount", "opsToApply", "res", "toSession",
           "fromSession", "maxSize", "opEntry"}

----------------------------------------------------------------------------
(* Pure helpers. *)

\* strings.Index(ns, "."): the first position of a dot, 0 if there is none.
FirstDot(ns) ==
    IF \E i \in 1..Len(ns) : ns[i] = "."
    THEN CHOOSE i \in 1..Len(ns) : ns[i] = "." /\ \A j \in 1..(i - 1) : ns[j] # "."
    ELSE 0

\* util.SplitAndValidateNamespace (line 35): the database part, the collection
\* part, and an error for a namespace that is not valid.
SplitAndValidateNamespace(ns) ==
    LET d == FirstDot(ns) IN
    IF Len(ns) = 0 \/ d = 1
    THEN [db |-> <<>>, coll |-> <<>>,
          err |-> [format |-> "namespace is not valid", arg |-> ""]]
    ELSE IF d = 0
         THEN [db |-> ns, coll |-> <<>>, err |-> NilErr]
         ELSE [db |-> SubSeq(ns, 1, d - 1), coll |-> SubSeq(ns, d + 1, Len(ns)),
               err |-> NilErr]

\* fmt.Errorf(format, arg) with one %v, arg already rendered as a string.
Errorf(format, arg) == [format |-> format, arg |-> arg]

\* fmt.Errorf(message) with no argument.
ErrorNew(message) == [format |-> message, arg |-> ""]

\* err.Error() of an error made without argument, as %v renders it.
Message(err) == err.format

\* The goroutine's filter (line 96): a no-op entry is skipped.
IsNoopNever(e) == FALSE
IsNoop(e) == e.op = "n"

\* The timer case's guard (line 126): nothing to apply.
TimerSkipsNever(ops) == FALSE
TimerSkipsAlways(ops) == TRUE
TimerSkips(ops) == Len(ops) = 0

\* The receive case's size trigger (line 152).
ShouldFlushLate(ops) == Len(ops) > maxSize
ShouldFlush(ops) == Len(ops) >= maxSize

\* opsToApply = append(opsToApply, opEntry) (line 149).
AppendOpInFront(ops, e) == <<e>> \o ops
AppendOp(ops, e) == Append(ops, e)

\* opsToApply = opsToApply[:0] (lines 145 and 168).
ResetKeeps(ops) == ops
Reset(ops) == <<>>

\* The two checks after an applyOps call (lines 133 and 138, 156 and 161): the
\* error Run returns, NilErr if the call succeeded.
ApplyErrorIgnoresOk(o) ==
    IF o.err # NilErr THEN Errorf("error applying ops: %v", Message(o.err))
    ELSE NilErr
ApplyErrorInverted(o) ==
    IF o.err # NilErr THEN NilErr
    ELSE IF o.Ok THEN Errorf("server gave error applying ops: %v", o.ErrMsg)
    ELSE NilErr
SelectingAfterReturn(pc) == pc \in {"select", "returned"}
ApplyError(o) ==
    IF o.err # NilErr THEN Errorf("error applying ops: %v", Message(o.err))
    ELSE IF ~o.Ok THEN Errorf("server gave error applying ops: %v", o.ErrMsg)
    ELSE NilErr

\* The select statement (line 124): Run takes a case only while it waits there;
\* during toSession.Run (lines 131 and 154) it is blocked in the call, and
\* until the log and the reset after it (lines 142-145, 165-168) are done it
\* has not come back to the select.
SelectingWhileApplying(pc) == pc \in {"select", "applyTimer", "applySize"}
Selecting(pc) == pc = "select"

\* uint64(x) << 32 (line 188) as four 16-bit limbs, most significant first: the
\* conversion keeps x modulo 2^64 and the shift drops its upper 32 bits.
Uint64NoShift(x) == <<0, 0, (x \div 65536) % 65536, x % 65536>>
Uint64Shl32(x) == <<(x \div 65536) % 65536, x % 65536, 0, 0>>

\* buildTailingCursor (lines 176-199): the "$gte" bound of the oplog query for
\* the clock reading nowSecs (time.Now() cut to whole seconds by Unix(), which
\* subtracting a whole number of seconds does not change) and look-back seconds.
buildTailingCursor(nowSecs, seconds) ==
    LET thresholdAsUnix == nowSecs - seconds
    IN  Uint64Shl32(thresholdAsUnix)

\* The accesses a step makes to the variables of Run's frame.
Acc(task, reads, writes) ==
    {<<v, task, "r">> : v \in reads} \cup {<<v, task, "w">> : v \in writes}

\* Running the deferred calls at a return, last deferred first.
RunDefersButFirst(stack, cl) ==
    [r \in Resources |->
        IF \E i \in 2..Len(stack) : stack[i] = r THEN cl[r] + 1 ELSE cl[r]]
RECURSIVE RunDefers(_, _)
RunDefers(stack, cl) ==
    IF stack = <<>> THEN cl
    ELSE LET r == stack[Len(stack)] IN
         RunDefers(SubSeq(stack, 1, Len(stack) - 1), [cl EXCEPT ![r] = @ + 1])

----------------------------------------------------------------------------
(* Initial state: Run has been called, nothing has happened yet. *)

\* The state when Run is called, for the inputs drawn from the given sets.
Start(nsSet, oplogSet, secondsSet, nowSet) ==
    /\ OplogNS \in nsSet
    /\ oplog \in oplogSet
    /\ Seconds \in secondsSet
    /\ now \in nowSet
    /\ threshold = <<0, 0, 0, 0>>
    /\ sessionCalls = <<>>
    /\ pos = 0
    /\ oplogEntry = ZeroOplog
    /\ opCount = 0
    /\ ppc = "idle"
    /\ cpc = "start"
    /\ tickPending = FALSE
    /\ opsToApply = <<>>
    /\ opEntry = ZeroOplog
    /\ res = ZeroResponse
    /\ retErr = NilErr
    /\ defers = <<>>
    /\ opened = [r \in Resources |-> 0]
    /\ closed = [r \in Resources |-> 0]
    /\ tailErr = NilErr
    /\ received = <<>>
    /\ requests = <<>>
    /\ logs = <<>>
    /\ logArgs = NoLog
    /\ access = {}

Init == Start(NSInputs, OplogInputs, {60}, {1700000100})

\* The runs explored under the fairness conditions: the same, with streams of
\* at most MaxLiveOplog entries.
LiveInit ==
    Start(NSInputs, {o \in OplogInputs : Len(o) <= MaxLiveOplog}, {60}, {1700000100})

\* The runs that explore the cursor's threshold: any look-back and clock reading,
\* a valid namespace, an empty stream.
CursorInit == Start({<<"l", ".", "o">>}, {<<>>}, SecondsInputs, NowInputs)

----------------------------------------------------------------------------
(* Run, before the loop (lines 33-122). *)

\* return err: the deferred calls run, then Run is over.
ReturnNil(err) ==
    /\ retErr' = NilErr
    /\ cpc' = "returned"
    /\ closed' = RunDefers(defers, closed)
    /\ defers' = <<>>
Return(err) ==
    /\ retErr' = err
    /\ cpc' = "returned"
    /\ closed' = RunDefers(defers, closed)
    /\ defers' = <<>>

\* Lines 33-46: split and validate the namespace.
ValidateNamespaceNoCollectionCheck ==
    /\ cpc = "start"
    /\ LET s == SplitAndValidateNamespace(OplogNS) IN
       IF s.err # NilErr THEN Return(s.err)
       ELSE /\ cpc' = "connectTo"
            /\ UNCHANGED <<retErr, closed, defers>>
    /\ UNCHANGED <<Seconds, now, threshold, sessionCalls>>
    /\ UNCHANGED <<OplogNS, oplog, pos, oplogEntry, opCount, ppc, tickPending,
                   opsToApply, opEntry, res, opened, tailErr, received,
                   requests, logs, logArgs, access>>
ValidateNamespace ==
    /\ cpc = "start"
    /\ LET s == SplitAndValidateNamespace(OplogNS) IN
       IF s.err # NilErr THEN Return(s.err)
       ELSE IF s.coll = <<>>
            THEN Return(ErrorNew("the oplog namespace must specify a collection"))
            ELSE /\ cpc' = "connectTo"
                 /\ UNCHANGED <<retErr, closed, defers>>
    /\ UNCHANGED <<Seconds, now, threshold, sessionCalls>>
    /\ UNCHANGED <<OplogNS, oplog, pos, oplogEntry, opCount, ppc, tickPending,
                   opsToApply, opEntry, res, opened, tailErr, received,
                   requests, logs, logArgs, access>>

\* Lines 48-61: connect to the destination server.
ConnectTo ==
    /\ cpc = "connectTo"
    /\ \E ok \in BOOLEAN :
         /\ sessionCalls' = Append(sessionCalls, <<"toSession", ok>>)
         /\ IF ~ok
            THEN /\ Return(Errorf("error connecting to destination db: %v", "no reachable servers"))
                 /\ UNCHANGED opened
            ELSE /\ opened' = [opened EXCEPT !["toSession"] = @ + 1]
                 /\ defers' = Append(defers, "toSession")
                 /\ cpc' = "connectFrom"
                 /\ UNCHANGED <<retErr, closed>>
    /\ UNCHANGED <<Seconds, now, threshold>>
    /\ UNCHANGED <<OplogNS, oplog, pos, oplogEntry, opCount, ppc, tickPending,
                   opsToApply, opEntry, res, tailErr, received, requests, logs, logArgs,
                   access>>

\* Lines 63-74: connect to the source server.
ConnectFromIgnoresError ==
    /\ cpc = "connectFrom"
    /\ \E ok \in BOOLEAN :
         /\ sessionCalls' = Append(sessionCalls, <<"fromSession", ok>>)
         /\ IF ~ok
            THEN /\ cpc' = "buildCursor"
                 /\ UNCHANGED <<opened, defers, retErr, closed>>
            ELSE /\ opened' = [opened EXCEPT !["fromSession"] = @ + 1]
                 /\ defers' = Append(defers, "fromSession")
                 /\ cpc' = "buildCursor"
                 /\ UNCHANGED <<retErr, closed>>
    /\ UNCHANGED <<Seconds, now, threshold>>
    /\ UNCHANGED <<OplogNS, oplog, pos, oplogEntry, opCount, ppc, tickPending,
                   opsToApply, opEntry, res, tailErr, received, requests, logs, logArgs,
                   access>>
ConnectFrom ==
    /\ cpc = "connectFrom"
    /\ \E ok \in BOOLEAN :
         /\ sessionCalls' = Append(sessionCalls, <<"fromSession", ok>>)
         /\ IF ~ok
            THEN /\ Return(Errorf("error connecting to source db: %v", "no reachable servers"))
                 /\ UNCHANGED opened
            ELSE /\ opened' = [opened EXCEPT !["fromSession"] = @ + 1]
                 /\ defers' = Append(defers, "fromSession")
                 /\ cpc' = "buildCursor"
                 /\ UNCHANGED <<retErr, closed>>
    /\ UNCHANGED <<Seconds, now, threshold>>
    /\ UNCHANGED <<OplogNS, oplog, pos, oplogEntry, opCount, ppc, tickPending,
                   opsToApply, opEntry, res, tailErr, received, requests, logs, logArgs,
                   access>>

\* Lines 76-122: open the tailing cursor, make the channel and the ticker, start
\* the goroutine, and enter the loop.
StartStreaming ==
    /\ cpc = "buildCursor"
    /\ threshold' = buildTailingCursor(now, Seconds)
    /\ opened' = [opened EXCEPT !["tail"] = @ + 1]
    /\ defers' = Append(defers, "tail")
    /\ oplogEntry' = ZeroOplog
    /\ res' = ZeroResponse
    /\ opCount' = 0
    /\ opsToApply' = <<>>
    /\ ppc' = "next"
    /\ cpc' = "select"
    /\ UNCHANGED <<Seconds, now, sessionCalls>>
    /\ UNCHANGED <<OplogNS, oplog, pos, tickPending, opEntry, retErr, closed,
                   tailErr, received, requests, logs, logArgs, access>>

----------------------------------------------------------------------------
(* The ticker (line 89): timer.C holds at most one tick; a tick that finds  *)
(* it full is dropped. The ticker is made in the step that starts the       *)
(* goroutine and is never stopped, so it goes on ticking after Run returns. *)

Tick ==
    /\ ppc # "idle"
    /\ ~tickPending
    /\ tickPending' = TRUE
    /\ UNCHANGED <<Seconds, now, threshold, sessionCalls>>
    /\ UNCHANGED <<OplogNS, oplog, pos, oplogEntry, opCount, ppc, cpc,
                   opsToApply, opEntry, res, retErr, defers, opened, closed,
                   tailErr, received, requests, logs, logArgs, access>>

----------------------------------------------------------------------------
(* The producer goroutine (lines 92-119). *)

\* Lines 93-99: tail.Next decodes the next entry into *oplogEntry; a no-op is
\* skipped, any other entry is about to be sent.
ProducerNext ==
    /\ ppc = "next"
    /\ pos < Len(oplog)
    /\ pos' = pos + 1
    /\ oplogEntry' = oplog[pos + 1]
    /\ ppc' = IF IsNoop(oplog[pos + 1]) THEN "next" ELSE "send"
    /\ access' = access \cup Acc("producer", {"tail", "oplogEntry"}, {"oplogEntry"})
    /\ UNCHANGED <<Seconds, now, threshold, sessionCalls>>
    /\ UNCHANGED <<OplogNS, oplog, opCount, cpc, tickPending, opsToApply,
                   opEntry, res, retErr, defers, opened, closed, tailErr,
                   received, requests, logs, logArgs>>

\* Lines 93 and 111-118: tail.Next returns false (the stream is exhausted, a read
\* failed, or Run has closed the cursor); the goroutine logs and ends.
ProducerStop ==
    /\ ppc = "next"
    /\ pos = Len(oplog) \/ closed["tail"] > 0
    /\ \E e \in {NilErr, ErrorNew("cursor read failed")} :
         /\ tailErr' = e
         /\ access' = access \cup
                      Acc("producer",
                          IF e = NilErr THEN {"tail", "oplogEntry", "opCount"}
                          ELSE {"tail", "oplogEntry"},
                          {})
    /\ ppc' = "done"
    /\ UNCHANGED <<Seconds, now, threshold, sessionCalls>>
    /\ UNCHANGED <<OplogNS, oplog, pos, oplogEntry, opCount, cpc, tickPending,
                   opsToApply, opEntry, res, retErr, defers, opened, closed,
                   received, requests, logs, logArgs>>

\* Line 102: after the send has completed, count the entry.
ProducerCount ==
    /\ ppc = "count"
    /\ opCount' = opCount + 1
    /\ ppc' = "first"
    /\ access' = access \cup Acc("producer", {"opCount"}, {"opCount"})
    /\ UNCHANGED <<Seconds, now, threshold, sessionCalls>>
    /\ UNCHANGED <<OplogNS, oplog, pos, oplogEntry, cpc, tickPending,
                   opsToApply, opEntry, res, retErr, defers, opened, closed,
                   tailErr, received, requests, logs, logArgs>>

\* Lines 105-108: the goroutine logs the first entry it has counted, in a step
\* of its own after the increment of line 102.
ProducerFirst ==
    /\ ppc = "first"
    /\ logs' = IF opCount = 1
               THEN Append(logs, [kind |-> "first", n |-> 0, total |-> 0,
                                  last |-> Shr32(oplogEntry.ts)])
               ELSE logs
    /\ ppc' = "next"
    /\ access' = access \cup Acc("producer", {"opCount", "oplogEntry"}, {})
    /\ UNCHANGED <<Seconds, now, threshold, sessionCalls>>
    /\ UNCHANGED <<OplogNS, oplog, pos, oplogEntry, opCount, cpc, tickPending,
                   opsToApply, opEntry, res, retErr, defers, opened, closed,
                   tailErr, received, requests, logArgs>>

----------------------------------------------------------------------------
(* Run's loop (lines 123-171). *)

\* A new applyOps request carrying ops (lines 131 and 154).
NewRequest(ops, trigger, rcvd) ==
    [ops |-> ops, trigger |-> trigger, rcvd |-> rcvd, status |-> "pending",
     reply |-> NoReply]

\* Lines 125-131: the timer case. With nothing buffered it continues; otherwise
\* it calls applyOps with the buffer.
TimerCase ==
    /\ Selecting(cpc)
    /\ tickPending
    /\ tickPending' = FALSE
    /\ IF TimerSkips(opsToApply)
       THEN /\ UNCHANGED <<cpc, requests>>
            /\ access' = access \cup Acc("coordinator", {"opsToApply"}, {})
       ELSE /\ requests' = Append(requests,
                                  NewRequest(opsToApply, "timer", Len(received)))
            /\ cpc' = "applyTimer"
            /\ access' = access \cup
                         Acc("coordinator", {"opsToApply", "toSession", "res"}, {})
    /\ UNCHANGED <<Seconds, now, threshold, sessionCalls>>
    /\ UNCHANGED <<OplogNS, oplog, pos, oplogEntry, opCount, ppc, opsToApply,
                   opEntry, res, retErr, defers, opened, closed, tailErr,
                   received, logs, logArgs>>

\* Lines 101 and 147-154: the send on oplogChan and the receive case meet; the
\* entry is appended, and at the size threshold applyOps is called.
Receive ==
    /\ ppc = "send"
    /\ Selecting(cpc)
    /\ LET ops == AppendOp(opsToApply, oplogEntry) IN
       /\ opEntry' = oplogEntry
       /\ opsToApply' = ops
       /\ received' = Append(received, oplogEntry)
       /\ ppc' = "count"
       /\ IF ShouldFlush(ops)
          THEN /\ requests' = Append(requests,
                                     NewRequest(ops, "size", Len(received) + 1))
               /\ cpc' = "applySize"
               /\ access' = access \cup Acc("producer", {"oplogEntry"}, {}) \cup
                            Acc("coordinator",
                                {"opEntry", "opsToApply", "maxSize", "toSession",
                                 "res"},
                                {"opEntry", "opsToApply"})
          ELSE /\ UNCHANGED requests
               /\ cpc' = "select"
               /\ access' = access \cup Acc("producer", {"oplogEntry"}, {}) \cup
                            Acc("coordinator", {"opEntry", "opsToApply", "maxSize"},
                                {"opEntry", "opsToApply"})
    /\ UNCHANGED <<Seconds, now, threshold, sessionCalls>>
    /\ UNCHANGED <<OplogNS, oplog, pos, oplogEntry, opCount, tickPending, res,
                   retErr, defers, opened, closed, tailErr, logs, logArgs>>

\* The request Run is waiting on gets its reply.
Answered(reqs, o) ==
    [reqs EXCEPT ![Len(reqs)] = [@ EXCEPT !.status = "returned", !.reply = o]]

\* The response decoded into *res; a transport error decodes nothing.
Decoded(o, r) == IF o.err = NilErr THEN [Ok |-> o.Ok, ErrMsg |-> o.ErrMsg] ELSE r

\* Lines 131-142: the timer case's applyOps call returns; on success the
\* arguments of the log call of line 142, opCount among them, are evaluated.
TimerApplyReturn ==
    /\ cpc = "applyTimer"
    /\ \E o \in ApplyOutcomes :
         /\ requests' = Answered(requests, o)
         /\ res' = Decoded(o, res)
         /\ IF ApplyError(o) # NilErr
            THEN /\ Return(ApplyError(o))
                 /\ access' = access \cup
                              Acc("coordinator",
                                  {"res", "tail", "fromSession", "toSession"},
                                  {"res"})
                 /\ UNCHANGED logArgs
            ELSE /\ logArgs' =
                       [kind |-> "applied", n |-> Len(opsToApply), total |-> opCount,
                        last |-> Shr32(opsToApply[Len(opsToApply)].ts)]
                 /\ cpc' = "logTimer"
                 /\ access' = access \cup
                              Acc("coordinator", {"res", "opsToApply", "opCount"},
                                  {"res"})
                 /\ UNCHANGED <<retErr, closed, defers>>
    /\ UNCHANGED <<Seconds, now, threshold, sessionCalls>>
    /\ UNCHANGED <<OplogNS, oplog, pos, oplogEntry, opCount, ppc, tickPending,
                   opsToApply, opEntry, opened, tailErr, received, logs>>

\* Lines 142-145: the log call of line 142 emits its line with the arguments evaluated
\* before, and the buffer is reset.
TimerLog ==
    /\ cpc = "logTimer"
    /\ logs' = Append(logs, logArgs)
    /\ logArgs' = NoLog
    /\ opsToApply' = Reset(opsToApply)
    /\ cpc' = "select"
    /\ access' = access \cup Acc("coordinator", {"opsToApply"}, {"opsToApply"})
    /\ UNCHANGED <<Seconds, now, threshold, sessionCalls>>
    /\ UNCHANGED <<OplogNS, oplog, pos, oplogEntry, opCount, ppc, tickPending,
                   opEntry, res, retErr, defers, opened, closed, tailErr,
                   received, requests>>

\* Lines 154-165: the receive case's applyOps call returns; on success the
\* arguments of the log call of line 165, opCount among them, are evaluated.
SizeApplyReturn ==
    /\ cpc = "applySize"
    /\ \E o \in ApplyOutcomes :
         /\ requests' = Answered(requests, o)
         /\ res' = Decoded(o, res)
         /\ IF ApplyError(o) # NilErr
            THEN /\ Return(ApplyError(o))
                 /\ access' = access \cup
                              Acc("coordinator",
                                  {"res", "tail", "fromSession", "toSession"},
                                  {"res"})
                 /\ UNCHANGED logArgs
            ELSE /\ logArgs' =
                       [kind |-> "applied", n |-> Len(opsToApply), total |-> opCount,
                        last |-> Shr32(opEntry.ts)]
                 /\ cpc' = "logSize"
                 /\ access' = access \cup
                              Acc("coordinator",
                                  {"res", "opsToApply", "opCount", "opEntry"},
                                  {"res"})
                 /\ UNCHANGED <<retErr, closed, defers>>
    /\ UNCHANGED <<Seconds, now, threshold, sessionCalls>>
    /\ UNCHANGED <<OplogNS, oplog, pos, oplogEntry, opCount, ppc, tickPending,
                   opsToApply, opEntry, opened, tailErr, received, logs>>

\* Lines 165-168: the log call of line 165 emits its line with the arguments evaluated
\* before, and the buffer is reset.
SizeLog ==
    /\ cpc = "logSize"
    /\ logs' = Append(logs, logArgs)
    /\ logArgs' = NoLog
    /\ opsToApply' = Reset(opsToApply)
    /\ cpc' = "select"
    /\ access' = access \cup Acc("coordinator", {"opsToApply"}, {"opsToApply"})
    /\ UNCHANGED <<Seconds, now, threshold, sessionCalls>>
    /\ UNCHANGED <<OplogNS, oplog, pos, oplogEntry, opCount, ppc, tickPending,
                   opEntry, res, retErr, defers, opened, closed, tailErr,
                   received, requests>>

----------------------------------------------------------------------------

Next ==
    \/ ValidateNamespace
    \/ ConnectTo
    \/ ConnectFrom
    \/ StartStreaming
    \/ Tick
    \/ ProducerNext
    \/ ProducerStop
    \/ ProducerCount
    \/ ProducerFirst
    \/ TimerCase
    \/ Receive
    \/ TimerApplyReturn
    \/ TimerLog
    \/ SizeApplyReturn
    \/ SizeLog

Spec == Init /\ [][Next]_vars

\* The scheduling the liveness claims assume: the ticker keeps ticking, every
\* call to the destination returns, each goroutine keeps running while it can
\* take a step, and the select statement, which picks at random among its ready
\* cases, does not ignore a case that is ready again and again.
Fairness ==
    /\ WF_vars(ValidateNamespace)
    /\ WF_vars(ConnectTo)
    /\ WF_vars(ConnectFrom)
    /\ WF_vars(StartStreaming)
    /\ WF_vars(Tick)
    /\ WF_vars(ProducerNext)
    /\ WF_vars(ProducerStop)
    /\ WF_vars(ProducerCount)
    /\ WF_vars(ProducerFirst)
    /\ SF_vars(TimerCase)
    /\ SF_vars(Receive)
    /\ WF_vars(TimerApplyReturn)
    /\ WF_vars(TimerLog)
    /\ WF_vars(SizeApplyReturn)
    /\ WF_vars(SizeLog)

FairSpec == LiveInit /\ [][Next]_vars /\ Fairness

\* Run up to the start of the loop, for the claims about buildTailingCursor.
CursorNext ==
    \/ ValidateNamespace
    \/ ConnectTo
    \/ ConnectFrom
    \/ StartStreaming

CursorSpec == CursorInit /\ [][CursorNext]_vars

----------------------------------------------------------------------------
(* Notions the properties are stated with. *)

\* The source stream with its no-ops removed.
NonNoops(seq) == SelectSeq(seq, LAMBDA e : e.op # "n")

IsPrefix(a, b) == Len(a) <= Len(b) /\ SubSeq(b, 1, Len(a)) = a

\* An applyOps call that returned and was accepted by the destination.
Succeeded(r) == r.status = "returned" /\ r.reply.err = NilErr /\ r.reply.Ok

\* An applyOps call that returned a transport error or ok = false.
Failed(r) == r.status = "returned" /\ (r.reply.err # NilErr \/ ~r.reply.Ok)

Pending(r) == r.status = "pending"

\* The batches of the first k requests that were applied successfully, concatenated.
RECURSIVE AppliedUpTo(_)
AppliedUpTo(k) ==
    IF k = 0 THEN <<>>
    ELSE IF Succeeded(requests[k]) THEN AppliedUpTo(k - 1) \o requests[k].ops
         ELSE AppliedUpTo(k - 1)

AppliedOps == AppliedUpTo(Len(requests))

\* The entries read from the source so far that are not no-ops.
ReadNonNoops == NonNoops(SubSeq(oplog, 1, pos))

\* Everything the source yields has been read, handed off and flushed.
AllFlushed ==
    /\ pos = Len(oplog)
    /\ ppc # "send"
    /\ opsToApply = <<>>
    /\ cpc = "select"

\* How many times entry e occurs in the batches of all requests issued.
Occurrences(e) ==
    Cardinality({kj \in {<<k, j>> : k \in 1..Len(requests), j \in 1..maxSize + 1} :
                   /\ kj[2] <= Len(requests[kj[1]].ops)
                   /\ requests[kj[1]].ops[kj[2]] = e})

\* How many entries the coordinator had received when request k - 1 was issued.
PrevRcvd(k) == IF k = 1 THEN 0 ELSE requests[k - 1].rcvd

----------------------------------------------------------------------------
(* The properties. *)

\* C1: the successfully applied batches, concatenated in apply order, are a
\* prefix of the source with its no-ops removed, and equal it once everything
\* the source yielded has been flushed.
C1_AppliedIsSourcePrefix ==
    /\ IsPrefix(AppliedOps, NonNoops(oplog))
    /\ AllFlushed => AppliedOps = NonNoops(oplog)

\* C1 witness: a stream with a no-op and more entries than one batch holds has
\* been applied entirely, in at least two batches.
C1_Witness ==
    /\ AllFlushed
    /\ Len(requests) >= 2
    /\ Len(NonNoops(oplog)) > maxSize
    /\ Len(NonNoops(oplog)) < Len(oplog)
    /\ AppliedOps = NonNoops(oplog)

\* C2: no no-op entry is ever about to be sent, received, buffered or put in a
\* request, and what has been handed off (with the entry being sent) is exactly
\* the non-no-op entries read so far, in source order.
C2_NoopsNeverForwarded ==
    /\ ppc = "send" => oplogEntry.op # "n"
    /\ \A i \in 1..Len(received) : received[i].op # "n"
    /\ \A i \in 1..Len(opsToApply) : opsToApply[i].op # "n"
    /\ \A k \in 1..Len(requests) :
         \A j \in 1..Len(requests[k].ops) : requests[k].ops[j].op # "n"
    /\ ReadNonNoops = IF ppc = "send" THEN Append(received, oplogEntry) ELSE received

\* C2 witness: an entry that follows a no-op in the source has been received and
\* put in a request.
C2_Witness ==
    \E i \in 1..Len(oplog) : \E j \in 1..Len(oplog) :
        /\ i < j
        /\ oplog[i].op = "n"
        /\ \E k \in 1..Len(received) : received[k] = oplog[j]
        /\ Occurrences(oplog[j]) = 1

\* C3: every batch passed to applyOps has between 1 and maxSize entries; one
\* flushed by the size trigger has exactly maxSize, one flushed by the timer has
\* at most maxSize - 1.
C3_BatchSizes ==
    \A k \in 1..Len(requests) :
        LET r == requests[k] IN
        /\ Len(r.ops) >= 1
        /\ Len(r.ops) <= maxSize
        /\ r.trigger = "size" => Len(r.ops) = maxSize
        /\ r.trigger = "timer" => Len(r.ops) <= maxSize - 1

\* C3 witness: a timer flush of maxSize - 1 entries was followed by a size flush.
C3_Witness ==
    \E k \in 1..Len(requests) : \E m \in 1..Len(requests) :
        /\ k < m
        /\ requests[k].trigger = "timer"
        /\ Len(requests[k].ops) = maxSize - 1
        /\ requests[m].trigger = "size"

\* C4: handling a tick while the buffer is empty issues no applyOps call and
\* leaves the buffer and the coordinator's state as they were; no request ever
\* carries an empty batch.
C4_EmptyTickNoApply ==
    /\ [][(tickPending /\ ~tickPending' /\ opsToApply = <<>>) =>
            /\ requests' = requests
            /\ opsToApply' = opsToApply
            /\ cpc' = cpc
            /\ res' = res
            /\ retErr' = retErr
            /\ opEntry' = opEntry
            /\ logs' = logs]_vars
    /\ [](\A k \in 1..Len(requests) : requests[k].ops # <<>>)

\* C4 witness: the coordinator has handled a tick (it read the buffer) before
\* anything was received, and is back in its select with no request issued.
C4_Witness ==
    /\ <<"opsToApply", "coordinator", "r">> \in access
    /\ received = <<>>
    /\ requests = <<>>
    /\ opsToApply = <<>>
    /\ ~tickPending
    /\ cpc = "select"

\* C5: a failed applyOps call (transport error, or ok = false with errmsg R) is
\* the last one ever issued: Run has returned a non-nil error, which carries R
\* in the ok = false case, whichever case of the select issued the call.
C5_ApplyFailureIsFatal ==
    /\ \A k \in 1..Len(requests) :
         Failed(requests[k]) =>
            /\ k = Len(requests)
            /\ cpc = "returned"
            /\ retErr # NilErr
            /\ (requests[k].reply.err = NilErr => retErr.arg = requests[k].reply.ErrMsg)
            /\ (requests[k].reply.err # NilErr => retErr.arg = Message(requests[k].reply.err))
    /\ cpc = "returned" => \A k \in 1..Len(requests) : ~Pending(requests[k])

\* C5 witness: after a batch was applied, a size-triggered applyOps call was
\* answered ok = false, "duplicate key", and Run returned that error.
C5_Witness ==
    /\ Len(requests) >= 2
    /\ Succeeded(requests[1])
    /\ requests[Len(requests)].trigger = "size"
    /\ Failed(requests[Len(requests)])
    /\ requests[Len(requests)].reply.ErrMsg = "duplicate key"
    /\ retErr.arg = "duplicate key"

\* C6: at most one applyOps request is outstanding, Run is blocked in the call
\* while it is, and a request is issued only after every earlier one has returned
\* successfully; requests are issued in the order their batches were formed.
C6_OneApplyAtATime ==
    /\ Cardinality({k \in 1..Len(requests) : Pending(requests[k])}) <= 1
    /\ \A k \in 1..Len(requests) :
         /\ Pending(requests[k]) => cpc \in {"applyTimer", "applySize"}
         /\ k < Len(requests) => Succeeded(requests[k])
         /\ PrevRcvd(k) < requests[k].rcvd

\* C6 witness: a second request is outstanding after the first one succeeded.
C6_Witness ==
    /\ Len(requests) = 2
    /\ Succeeded(requests[1])
    /\ Pending(requests[2])

\* C7: a flush carries exactly the entries the coordinator received since the
\* previous flush was issued, in order; an entry received later is in no batch
\* issued before it was received.
C7_FlushIsReceivedSincePrevious ==
    \A k \in 1..Len(requests) :
        /\ requests[k].ops = SubSeq(received, PrevRcvd(k) + 1, requests[k].rcvd)
        /\ requests[k].rcvd <= Len(received)
        /\ Pending(requests[k]) => requests[k].rcvd = Len(received)

\* C7 witness: the source [op1, op2, noop, op3] with a tick after op2 was
\* buffered and before op3 arrived: the batches are [op1, op2] and then [op3].
C7_Witness ==
    /\ Len(oplog) = 4
    /\ oplog[3].op = "n"
    /\ Len(requests) = 2
    /\ requests[1].trigger = "timer"
    /\ requests[1].ops = <<oplog[1], oplog[2]>>
    /\ requests[2].ops = <<oplog[4]>>

\* C8: every entry handed off is in at most one applyOps request; while Run
\* waits in its select the buffer holds no entry of any request issued, and
\* after a failed flush no request follows.
C8_AtMostOncePerRun ==
    /\ \A i \in 1..Len(received) : Occurrences(received[i]) <= 1
    /\ cpc = "select" =>
         \A i \in 1..Len(opsToApply) : Occurrences(opsToApply[i]) = 0
    /\ \A k \in 1..Len(requests) : Failed(requests[k]) => k = Len(requests)

\* C8 witness: after a successful flush, further entries were received and
\* flushed, and that flush failed.
C8_Witness ==
    /\ Len(requests) >= 2
    /\ Succeeded(requests[1])
    /\ Failed(requests[Len(requests)])
    /\ \A i \in 1..Len(received) : Occurrences(received[i]) = 1

\* C9: no hand-off completes while an applyOps call is outstanding, and at most
\* one non-no-op entry has been read but not yet received: the one the producer
\* is blocked sending.
C9_SynchronousHandOff ==
    /\ \A k \in 1..Len(requests) :
         Pending(requests[k]) => Len(received) = requests[k].rcvd
    /\ Len(ReadNonNoops) - Len(received) \in {0, 1}
    /\ Len(ReadNonNoops) - Len(received) = 1 <=> ppc = "send"

\* C9 witness: the producer is blocked on its send while an applyOps call is
\* outstanding.
C9_Witness ==
    /\ ppc = "send"
    /\ cpc \in {"applyTimer", "applySize"}
    /\ Pending(requests[Len(requests)])
    /\ Len(ReadNonNoops) = Len(received) + 1

\* A variable of Run's frame that one task has written and the other task has
\* read or written.
SharedWrite(v) ==
    \E t \in Tasks : \E u \in Tasks \ {t} :
        /\ <<v, t, "w">> \in access
        /\ <<v, u, "r">> \in access \/ <<v, u, "w">> \in access

\* C10: the producer and the coordinator share no variable that one of them
\* writes and the other reads or writes.
C10_NoSharedVariable == \A v \in GoVars : ~SharedWrite(v)

\* The progress lines of the successful flushes, in order.
AppliedLogs == SelectSeq(logs, LAMBDA l : l.kind = "applied")

\* C11: the running total logged on each successful flush is the number of
\* entries in all the batches applied successfully so far, that flush included.
C11_LoggedTotalIsAppliedCount ==
    \A j \in 1..Len(AppliedLogs) :
        /\ j <= Len(requests)
        /\ AppliedLogs[j].total = Len(AppliedUpTo(j))

\* C12: Run leaves its loop only when an applyOps call has failed, and then with a
\* non-nil error; it never returns success; when the goroutine ends (stream
\* exhausted or read error) Run stays where it is, and it still takes its timer
\* case when a tick is there.
C12_LoopEndsOnlyByApplyFailure ==
    /\ [][(cpc \in {"select", "applyTimer", "logTimer", "applySize", "logSize"}
            /\ cpc' = "returned") =>
            /\ cpc \in {"applyTimer", "applySize"}
            /\ Failed(requests'[Len(requests')])
            /\ retErr' # NilErr]_vars
    /\ [][(ppc # "done" /\ ppc' = "done") =>
            (cpc' = cpc /\ retErr' = retErr /\ opsToApply' = opsToApply)]_vars
    /\ [](cpc = "returned" => retErr # NilErr)
    /\ []((ppc = "done" /\ cpc = "select" /\ tickPending) => ENABLED TimerCase)

\* C12 witness: the goroutine ended on a read error while Run went on; Run
\* returned later, when an applyOps call failed.
C12_Witness ==
    /\ ppc = "done"
    /\ tailErr # NilErr
    /\ cpc = "returned"
    /\ Len(requests) >= 2
    /\ Failed(requests[Len(requests)])
    /\ requests[Len(requests)].trigger = "timer"
    /\ retErr # NilErr

\* C13: when Run has returned, every resource it acquired has been released
\* exactly once and none that it did not acquire; nothing is released before;
\* after an applyOps failure both sessions and the cursor are released.
C13_ResourcesReleasedOnce ==
    /\ \A r \in Resources :
         /\ opened[r] <= 1
         /\ cpc = "returned" => closed[r] = opened[r]
         /\ cpc # "returned" => closed[r] = 0
    /\ (cpc = "returned" /\ requests # <<>>) => \A r \in Resources : closed[r] = 1

\* C13 witness: Run has returned on a failed applyOps call with both sessions and
\* the cursor released.
C13_Witness ==
    /\ cpc = "returned"
    /\ requests # <<>>
    /\ Failed(requests[Len(requests)])
    /\ \A r \in Resources : opened[r] = 1 /\ closed[r] = 1

\* A namespace with a database part and a collection part: it does not begin
\* with a dot and has a dot before its last character.
HasCollection(ns) ==
    /\ Len(ns) >= 3
    /\ ns[1] # "."
    /\ \E i \in 2..(Len(ns) - 1) : ns[i] = "."

\* C14: for a namespace that is not valid or has no collection part, Run makes
\* no GetSession call, acquires nothing, starts no goroutine and issues no
\* applyOps call; its only step is to return an error.
C14_BadNamespaceFailsFirst ==
    ~HasCollection(OplogNS) =>
        /\ sessionCalls = <<>>
        /\ \A r \in Resources : opened[r] = 0 /\ closed[r] = 0
        /\ ppc = "idle"
        /\ requests = <<>>
        /\ received = <<>>
        /\ cpc \in {"start", "returned"}
        /\ cpc = "returned" => retErr # NilErr

\* C14 witness: Run was given a namespace without collection part and has
\* returned the error of line 43 without any GetSession call.
C14_Witness ==
    /\ OplogNS = <<"l">>
    /\ cpc = "returned"
    /\ retErr = ErrorNew("the oplog namespace must specify a collection")
    /\ sessionCalls = <<>>

\* C15: a GetSession call that fails is the last one made (no retry): Run has
\* returned an error, the cursor was not opened, the goroutine was not started
\* and no applyOps call was issued; the destination's session is asked for
\* first, and the source's only once the destination's was obtained.
C15_ConnectionFailureIsFatal ==
    /\ \A i \in 1..Len(sessionCalls) :
         ~sessionCalls[i][2] =>
            /\ i = Len(sessionCalls)
            /\ cpc = "returned"
            /\ retErr # NilErr
            /\ retErr.arg = "no reachable servers"
            /\ opened["tail"] = 0
            /\ threshold = <<0, 0, 0, 0>>
            /\ ppc = "idle"
            /\ requests = <<>>
    /\ Len(sessionCalls) <= 2
    /\ Len(sessionCalls) >= 1 => sessionCalls[1][1] = "toSession"
    /\ Len(sessionCalls) = 2 =>
         /\ sessionCalls[1][2]
         /\ sessionCalls[2][1] = "fromSession"
         /\ opened["toSession"] = 1

\* C15 witness: the destination's session was obtained, the source's was not,
\* and Run has returned that error after releasing the destination's session.
C15_Witness ==
    /\ sessionCalls = <<<<"toSession", TRUE>>, <<"fromSession", FALSE>>>>
    /\ cpc = "returned"
    /\ retErr = Errorf("error connecting to source db: %v", "no reachable servers")
    /\ closed["toSession"] = 1
    /\ ppc = "idle"

\* The upper 32 bits of a 64-bit value given as 16-bit limbs, read as a two's
\* complement number.
Upper32(limbs) ==
    IF limbs[1] >= 32768
    THEN (limbs[1] - 65536) * 65536 + limbs[2]
    ELSE limbs[1] * 65536 + limbs[2]

\* The cursor has been built.
CursorBuilt == opened["tail"] = 1

\* C16: the threshold buildTailingCursor computes for look-back Seconds at clock
\* reading now has now - Seconds in its upper 32 bits and 0 in its lower 32
\* bits; for 60 s at 1,700,000,100 it is 1,700,000,040 << 32
\* (1,700,000,040 = 25939 * 65536 + 61736).
C16_ThresholdIsShiftedLookBack ==
    CursorBuilt =>
        /\ Upper32(threshold) = now - Seconds
        /\ threshold[3] = 0
        /\ threshold[4] = 0
        /\ (Seconds = 60 /\ now = 1700000100) => threshold = <<25939, 61736, 0, 0>>

\* C16 witness: the cursor has been built for a look-back of 60 s at clock
\* reading 1,700,000,100.
C16_Witness ==
    /\ CursorBuilt
    /\ Seconds = 60
    /\ now = 1700000100
    /\ threshold = <<25939, 61736, 0, 0>>

\* The n-th entry the coordinator received is in an applyOps request.
Requested(n) == Len(received) >= n /\ Occurrences(received[n]) >= 1

\* C17: with ticks that keep occurring and applyOps calls that return, every
\* entry the coordinator has received is eventually in an applyOps request,
\* also when the goroutine has ended: again and again, all the entries received
\* so far are in a request.
C17_ReceivedIsEventuallyRequested ==
    []<>(\A n \in 1..Len(received) : Requested(n))

\* C17 witness: the goroutine has ended on a read error while the buffer holds
\* entries that are in no request yet, and a tick is waiting to be handled.
C17_Witness ==
    /\ ppc = "done"
    /\ tailErr # NilErr
    /\ cpc = "select"
    /\ tickPending
    /\ opsToApply # <<>>
    /\ \A i \in 1..Len(opsToApply) : Occurrences(opsToApply[i]) = 0

\* C18: the buffer never holds more than maxSize entries, and holds fewer than
\* maxSize whenever Run waits in its select.
C18_BufferBounded ==
    /\ Len(opsToApply) <= maxSize
    /\ cpc = "select" => Len(opsToApply) < maxSize

\* C18 witness: the buffer has reached maxSize and Run is in the applyOps call
\* of the receive case; before, a shorter buffer was flushed by the timer.
C18_Witness ==
    /\ Len(opsToApply) = maxSize
    /\ cpc = "applySize"
    /\ Len(requests) >= 2
    /\ requests[1].trigger = "timer"

\* An applyOps call has failed.
SomeApplyFailed == \E k \in 1..Len(requests) : Failed(requests[k])

\* C19: with applyOps calls that return, a producer that is at its send gets
\* the entry received, unless an applyOps call has failed.
C19_SendEventuallyCompletes ==
    (ppc = "send") ~> (ppc = "count" \/ SomeApplyFailed)

\* C19 witness: a send that was waiting while applyOps calls were made has
\* completed: an entry was received after a request had returned successfully.
C19_Witness ==
    /\ ppc = "count"
    /\ requests # <<>>
    /\ Succeeded(requests[Len(requests)])
    /\ Len(received) > requests[Len(requests)].rcvd
    /\ ~SomeApplyFailed

\* C20: once Run has returned, nothing is received from oplogChan, buffered or
\* requested any more, and a producer that is at its send stays there.
C20_NoReceiveAfterReturn ==
    [][cpc = "returned" =>
         /\ cpc' = "returned"
         /\ received' = received
         /\ opsToApply' = opsToApply
         /\ requests' = requests
         /\ (ppc = "send" => ppc' = "send" /\ oplogEntry' = oplogEntry)]_vars

\* C20 witness: Run has returned on a failed applyOps call while the producer
\* is at its send with an entry that was read after the cursor was closed and is
\* neither received nor in a request.
C20_Witness ==
    /\ cpc = "returned"
    /\ SomeApplyFailed
    /\ closed["tail"] = 1
    /\ ppc = "send"
    /\ \A i \in 1..Len(received) : received[i] # oplogEntry
    /\ Occurrences(oplogEntry) = 0

====
